---- MODULE Spec2Model ----
(***************************************************************************)
(* Innovedge bot: the conversation handlers of                             *)
(* "src/bin/version after fixing edit issues(doesnt work).py" and the      *)
(* reaction store of src/app/crud/crud_reaction.py.                        *)
(*                                                                         *)
(* A message text is a sequence of tokens; the token " " is whitespace,    *)
(* every other token is a run of non-blank characters.  Two texts are the  *)
(* same Python string exactly when they are the same sequence.             *)
(*                                                                         *)
(* Spec       one Telegram user driving the conversation flows in the      *)
(*            private chat                                                 *)
(*            (registration, task posting, profile edit, deletion).        *)
(*            Conversations of different users share only the store.       *)
(* SpecMatch  two users applying to tasks (the matching engine).           *)
(* SpecConc   two /apply_task handlers whose store calls interleave.       *)
(* SpecEdit   edit_profile_value applied to a registered user.             *)
(* SpecChats  one user talking to the bot in two chats.                    *)
(*                                                                         *)
(* The crud functions other than create_reaction, and the tables, are      *)
(* modelled from the specification's Entity Store (sections 3, 4.2, 6).    *)
(* The categories column is left out: categorize_text only fills it.       *)
(* Handlers that change no state (start, help, browse_tasks, profile,      *)
(* profile_callback, ...) are left out.                                    *)
(***************************************************************************)
EXTENDS Integers, Sequences, FiniteSets, Bags, TLC

VARIABLES
    users,              \* rows of the users table (create_user, line 151)
    tasks,              \* rows of the tasks table, tasks[i] has id i (create_task, line 210)
    reactions,          \* bag of rows of the reactions table (create_reaction)
    matches,            \* bag of rows of the matches table (create_match, line 433)
    notifications,      \* bag of messages sent by context.bot.send_message (line 437)
    register_state,     \* register_conv: conversation state per (chat, user) (line 167)
    post_task_state,    \* post_task_conv: conversation state per (chat, user) (line 226)
    delete_state,       \* delete_profile_conv: conversation state per (chat, user) (line 351)
    edit_state,         \* edit_profile_conv: conversation state per (chat, user) (line 309)
    user_data,          \* context.user_data per user, a Python dict
    reply,              \* the last message the bot replied with
    inflight,           \* per chat, the position of its /apply_task handler (lines 404-441)
    entered             \* history: per conversation, the values its current run accepted

vars == <<users, tasks, reactions, matches, notifications, register_state,
          post_task_state, delete_state, edit_state, user_data, reply, inflight,
          entered>>

store == <<users, tasks, reactions, matches>>
convs == <<register_state, post_task_state, delete_state, edit_state>>

(***************************************************************************)
(* Bounds                                                                  *)
(***************************************************************************)
MaxUserId == 2          \* surrogate ids of the users table are 1..MaxUserId
MaxTasks == 1           \* rows the tasks table may hold (Spec)
MaxReactions == 4       \* rows the reactions table may hold (SpecMatch)

TgIds == {1, 2}         \* Telegram user ids

\* A conversation is kept per (chat id, user id), the default key of a
\* ConversationHandler; a private chat has the id of its user.
effective_chat(key) == key[1]
effective_user(key) == key[2]
PrivateKeys == {<<u, u>> : u \in TgIds}
\* user 1 also talks to the bot in the group chat 9
ChatKeys == {<<1, 1>>, <<9, 1>>}
ConvKeys == PrivateKeys \cup ChatKeys
FlowKeys == {<<1, 1>>}  \* the private chat that drives the conversation flows in Spec

(***************************************************************************)
(* Conversation states (lines 24-28); END removes the conversation key     *)
(***************************************************************************)
END == "END"
ASK_ROLE == "ASK_ROLE"
ASK_NAME == "ASK_NAME"
ASK_SKILLS == "ASK_SKILLS"
ASK_TASK_DESC == "ASK_TASK_DESC"
ASK_TASK_TIMEFRAME == "ASK_TASK_TIMEFRAME"
ASK_TASK_REWARD == "ASK_TASK_REWARD"
EDIT_VALUE == "EDIT_VALUE"
CONFIRM_DELETE == "CONFIRM_DELETE"

TALENT == "TALENT"
EMPLOYER == "EMPLOYER"
UserRole == {TALENT, EMPLOYER}
LIKE == "LIKE"

(***************************************************************************)
(* Strings                                                                 *)
(***************************************************************************)
SP == " "

RECURSIVE lstrip(_)
lstrip(s) == IF s # <<>> /\ Head(s) = SP THEN lstrip(Tail(s)) ELSE s

RECURSIVE rstrip(_)
rstrip(s) == IF s # <<>> /\ s[Len(s)] = SP THEN rstrip(SubSeq(s, 1, Len(s) - 1)) ELSE s

\* str.strip()
strip(s) == rstrip(lstrip(s))

upper_token(c) ==
    CASE c = "talent" -> "TALENT"
      [] c = "employer" -> "EMPLOYER"
      [] c = "a" -> "A"
      [] c = "b" -> "B"
      [] OTHER -> c

\* str.upper()
upper(s) == [i \in DOMAIN s |-> upper_token(s[i])]

\* str.split(): the maximal runs of non-blank tokens
RECURSIVE split_from(_, _, _)
split_from(s, cur, acc) ==
    IF s = <<>> THEN (IF cur = <<>> THEN acc ELSE Append(acc, cur))
    ELSE IF Head(s) = SP
         THEN split_from(Tail(s), <<>>, IF cur = <<>> THEN acc ELSE Append(acc, cur))
         ELSE split_from(Tail(s), Append(cur, Head(s)), acc)

split(s) == split_from(s, <<>>, <<>>)

Digits == {"0", "1", "2", "7", "9"}

digit_value(c) ==
    CASE c = "0" -> 0 [] c = "1" -> 1 [] c = "2" -> 2 [] c = "7" -> 7 [] c = "9" -> 9

\* int(s) raises ValueError unless s is an optional sign followed by digits
is_int(s) ==
    LET body == IF s # <<>> /\ Head(s) \in {"-", "+"} THEN Tail(s) ELSE s
    IN  body # <<>> /\ \A i \in DOMAIN body : body[i] \in Digits

RECURSIVE digits_value(_)
digits_value(s) ==
    IF s = <<>> THEN 0 ELSE 10 * digits_value(SubSeq(s, 1, Len(s) - 1)) + digit_value(s[Len(s)])

\* int(s) for a text is_int accepts
int(s) ==
    IF Head(s) = "-" THEN 0 - digits_value(Tail(s))
    ELSE IF Head(s) = "+" THEN digits_value(Tail(s))
    ELSE digits_value(s)

(***************************************************************************)
(* Python dict (context.user_data) and nullable columns                    *)
(***************************************************************************)
EmptyDict == [k \in {} |-> 0]

dict_set(d, k, v) == [x \in (DOMAIN d) \cup {k} |-> IF x = k THEN v ELSE d[x]]

\* dict.get(k): <<>> for None, <<v>> for a value
dict_without(d, ks) == [x \in (DOMAIN d) \ ks |-> d[x]]

dict_get(d, k) == IF k \in DOMAIN d THEN <<d[k]>> ELSE <<>>

None == <<>>
Some(v) == <<v>>

(***************************************************************************)
(* Replies                                                                 *)
(***************************************************************************)
Reply(key, msg) == [to |-> key, msg |-> msg]

NoReply == [to |-> <<0, 0>>, msg |-> "none"]

\* error_handler: the update has a message, so the apology is sent
error_handler(key) == Reply(key, "An internal error occurred. Please try again later.")

(***************************************************************************)
(* Entity store                                                            *)
(***************************************************************************)
get_user_by_telegram_id(db_users, telegram_id) ==
    {r \in db_users : r.telegram_id = telegram_id}

user_ids(db_users) == {r.id : r \in db_users}

\* faulty variant: the users table takes a second row for a telegram_id
create_user_never_refused(db_users, telegram_id) == FALSE

\* the users table refuses a second row for a telegram_id
create_user_refused(db_users, telegram_id) ==
    get_user_by_telegram_id(db_users, telegram_id) # {}

\* the rows create_user may insert: any surrogate id not in use
create_user(db_users, telegram_id, name, role, description) ==
    { [id |-> i, telegram_id |-> telegram_id, name |-> name, role |-> role,
       description |-> description, university |-> None, study_year |-> None]
      : i \in (1..MaxUserId) \ user_ids(db_users) }

\* update_user(db, telegram_id, **{field: value})
update_user(db_users, telegram_id, field, value) ==
    { IF r.telegram_id = telegram_id
      THEN [r EXCEPT ![field] = IF field \in {"university", "study_year"} THEN Some(value) ELSE value]
      ELSE r : r \in db_users }

create_task(db_tasks, owner_id, description, timeframe, reward) ==
    Append(db_tasks, [owner_id |-> owner_id, description |-> description,
                      timeframe |-> timeframe, reward |-> reward])

get_task_by_id(db_tasks, task_id) ==
    IF task_id \in DOMAIN db_tasks THEN {db_tasks[task_id]} ELSE {}

create_reaction(db_reactions, from_user_id, to_user_id, reaction_type) ==
    db_reactions (+) SetToBag({[from_user_id |-> from_user_id, to_user_id |-> to_user_id,
                                reaction_type |-> reaction_type]})

\* reactionExists(from, to, LIKE)
reaction_exists(db_reactions, from_user_id, to_user_id) ==
    BagIn([from_user_id |-> from_user_id, to_user_id |-> to_user_id, reaction_type |-> LIKE],
          db_reactions)

\* the reverse LIKE exists (the forward one was just created by the caller)
check_mutual_like(db_reactions, user_id, other_id) ==
    /\ reaction_exists(db_reactions, other_id, user_id)
    /\ reaction_exists(db_reactions, user_id, other_id)

match_rows(db_matches, a, b) ==
    {m \in BagToSet(db_matches) : {m.user1_id, m.user2_id} = {a, b}}

\* faulty variant: a plain insert
create_match_always(db_matches, user1_id, user2_id) ==
    db_matches (+) SetToBag({[user1_id |-> user1_id, user2_id |-> user2_id]})

\* faulty variant: the existing row is looked up by the ordered pair
create_match_ordered(db_matches, user1_id, user2_id) ==
    IF [user1_id |-> user1_id, user2_id |-> user2_id] \in BagToSet(db_matches)
    THEN db_matches
    ELSE db_matches (+) SetToBag({[user1_id |-> user1_id, user2_id |-> user2_id]})

\* createMatchIfAbsent: one row per unordered pair
create_match(db_matches, user1_id, user2_id) ==
    IF match_rows(db_matches, user1_id, user2_id) # {}
    THEN db_matches
    ELSE db_matches (+) SetToBag({[user1_id |-> user1_id, user2_id |-> user2_id]})

(***************************************************************************)
(* Initial state: empty store, no conversation, empty user_data            *)
(***************************************************************************)
\* no /apply_task handler is running
NotRunning == [pc |-> "done", user_id |-> 0, owner_id |-> 0]

NoConversations ==
    /\ register_state = [key \in ConvKeys |-> END]
    /\ post_task_state = [key \in ConvKeys |-> END]
    /\ delete_state = [key \in ConvKeys |-> END]
    /\ edit_state = [key \in ConvKeys |-> END]
    /\ user_data = [u \in TgIds |-> EmptyDict]
    /\ reply = NoReply
    /\ inflight = [key \in PrivateKeys |-> NotRunning]
    /\ entered = [key \in ConvKeys |-> EmptyDict]

Init ==
    /\ users = {}
    /\ tasks = <<>>
    /\ reactions = EmptyBag
    /\ matches = EmptyBag
    /\ notifications = EmptyBag
    /\ NoConversations

(***************************************************************************)
(* Inputs: the texts and button presses the users send                     *)
(***************************************************************************)
PHRASE == <<"papafranchesco", SP, "is", SP, "genius">>

RoleTexts == {<<"talent">>, <<"EMPLOYER">>, <<SP, "TALENT">>}
NameTexts == {<<SP>>, <<SP, "a">>, <<"b">>}
SkillTexts == {<<"a", SP>>}
TaskDescTexts == {<<"a">>, <<"b">>}
TaskTimeframeTexts == {<<"w">>}
TaskRewardTexts == {<<"r">>}
ConfirmTexts == {PHRASE, <<SP>> \o PHRASE, PHRASE \o <<SP>>, <<"a">>}
MenuTexts == {<<"7">>, <<"a">>, <<"Help">>}
ApplyTexts == {<<"/apply_task">>, <<"/apply_task", SP, "1">>, <<"/apply_task", SP, "2">>,
               <<"/apply_task", SP, "9">>, <<"/apply_task", SP, "a">>}
\* an inline button stays on its message, so it can be pressed at any time
EditButtons == {"edit_name", "edit_study_year", "cancel_editing"}

(***************************************************************************)
(* Dispatch (main, lines 476-496): the handlers are tried in the order     *)
(* they were added; a ConversationHandler takes a text or /cancel only     *)
(* while it holds a state for the user, and its entry command only while   *)
(* it holds none.                                                          *)
(***************************************************************************)
in_register_conv(key) == register_state[key] # END
in_post_task_conv(key) == ~in_register_conv(key) /\ post_task_state[key] # END
in_delete_profile_conv(key) == ~in_register_conv(key) /\ post_task_state[key] = END /\ delete_state[key] # END
in_edit_profile_conv(key) ==
    ~in_register_conv(key) /\ post_task_state[key] = END /\ delete_state[key] = END /\ edit_state[key] # END
outside_flows(key) ==
    ~in_register_conv(key) /\ post_task_state[key] = END /\ delete_state[key] = END

(***************************************************************************)
(* Global handlers                                                         *)
(***************************************************************************)
\* /cancel: the fallback of the first conversation that holds a state
cancel(key) ==
    /\ \/ register_state[key] # END
       \/ post_task_state[key] # END
       \/ delete_state[key] # END
       \/ edit_state[key] # END
    /\ register_state' = IF in_register_conv(key) THEN [register_state EXCEPT ![key] = END]
                         ELSE register_state
    /\ post_task_state' = IF in_post_task_conv(key) THEN [post_task_state EXCEPT ![key] = END]
                          ELSE post_task_state
    /\ delete_state' = IF in_delete_profile_conv(key) THEN [delete_state EXCEPT ![key] = END]
                       ELSE delete_state
    /\ edit_state' = IF in_edit_profile_conv(key) THEN [edit_state EXCEPT ![key] = END]
                     ELSE edit_state
    /\ reply' = Reply(key, "Operation canceled.")
    /\ UNCHANGED <<store, notifications, user_data>>
    /\ UNCHANGED inflight
    /\ entered' = IF in_register_conv(key)
                  THEN [entered EXCEPT ![key] = dict_without(@, {"role", "name"})]
                  ELSE IF in_post_task_conv(key)
                  THEN [entered EXCEPT ![key] = dict_without(@, {"task_desc", "task_timeframe"})]
                  ELSE entered

(***************************************************************************)
(* Registration flow                                                       *)
(***************************************************************************)
register_command(key) ==
    /\ register_state[key] = END
    /\ register_state' = [register_state EXCEPT ![key] = ASK_ROLE]
    /\ reply' = Reply(key, "Are you registering as TALENT or EMPLOYER?")
    /\ UNCHANGED <<store, notifications, post_task_state, delete_state, edit_state, user_data>>
    /\ UNCHANGED inflight
    /\ entered' = [entered EXCEPT ![key] = dict_without(@, {"role", "name"})]

received_role(key, text) ==
    /\ register_state[key] = ASK_ROLE
    /\ LET role_str == upper(text) IN
       IF role_str \notin {<<"TALENT">>, <<"EMPLOYER">>}
       THEN /\ reply' = Reply(key, "Please choose TALENT or EMPLOYER.")
            /\ UNCHANGED <<register_state, user_data>>
       ELSE /\ user_data' = [user_data EXCEPT ![effective_user(key)] =
                   dict_set(@, "role", IF role_str = <<"TALENT">> THEN TALENT ELSE EMPLOYER)]
            /\ register_state' = [register_state EXCEPT ![key] = ASK_NAME]
            /\ reply' = Reply(key, "Great, what's your name?")
    /\ UNCHANGED <<store, notifications, post_task_state, delete_state, edit_state>>
    /\ UNCHANGED inflight
    /\ entered' = IF upper(text) \in {<<"TALENT">>, <<"EMPLOYER">>}
                  THEN [entered EXCEPT ![key] =
                           dict_set(@, "role", IF upper(text) = <<"TALENT">> THEN TALENT ELSE EMPLOYER)]
                  ELSE entered

\* faulty variant: the name is stored without the emptiness test
received_name_unvalidated(key, text) ==
    /\ register_state[key] = ASK_NAME
    /\ user_data' = [user_data EXCEPT ![effective_user(key)] = dict_set(@, "name", strip(text))]
    /\ register_state' = [register_state EXCEPT ![key] = ASK_SKILLS]
    /\ reply' = Reply(key, "Please describe your skill sets or expertise")
    /\ UNCHANGED <<store, notifications, post_task_state, delete_state, edit_state, inflight>>
    /\ entered' = [entered EXCEPT ![key] = dict_set(@, "name", strip(text))]

\* faulty variant: an accepted name sends the conversation back to ASK_ROLE
received_name_restarts(key, text) ==
    /\ register_state[key] = ASK_NAME
    /\ LET name == strip(text) IN
       IF name = <<>>
       THEN /\ reply' = Reply(key, "Name cannot be empty.")
            /\ UNCHANGED <<register_state, user_data>>
       ELSE /\ user_data' = [user_data EXCEPT ![effective_user(key)] = dict_set(@, "name", name)]
            /\ register_state' = [register_state EXCEPT ![key] = ASK_ROLE]
            /\ reply' = Reply(key, "Please describe your skill sets or expertise")
    /\ UNCHANGED <<store, notifications, post_task_state, delete_state, edit_state, inflight>>
    /\ entered' = IF strip(text) # <<>>
                  THEN [entered EXCEPT ![key] = dict_set(@, "name", strip(text))]
                  ELSE entered

received_name(key, text) ==
    /\ register_state[key] = ASK_NAME
    /\ LET name == strip(text) IN
       IF name = <<>>
       THEN /\ reply' = Reply(key, "Name cannot be empty.")
            /\ UNCHANGED <<register_state, user_data>>
       ELSE /\ user_data' = [user_data EXCEPT ![effective_user(key)] = dict_set(@, "name", name)]
            /\ register_state' = [register_state EXCEPT ![key] = ASK_SKILLS]
            /\ reply' = Reply(key, "Please describe your skill sets or expertise")
    /\ UNCHANGED <<store, notifications, post_task_state, delete_state, edit_state>>
    /\ UNCHANGED inflight
    /\ entered' = IF strip(text) # <<>>
                  THEN [entered EXCEPT ![key] = dict_set(@, "name", strip(text))]
                  ELSE entered

received_skills(key, text) ==
    /\ register_state[key] = ASK_SKILLS
    /\ LET skills_description == strip(text) IN
       IF create_user_refused(users, effective_user(key))
       THEN \* create_user raises: the state is not updated, error_handler replies
            /\ reply' = error_handler(key)
            /\ UNCHANGED <<users, register_state>>
       ELSE /\ \E new_user \in create_user(users, effective_user(key), user_data[effective_user(key)]["name"],
                                            user_data[effective_user(key)]["role"], skills_description) :
                   users' = users \cup {new_user}
            /\ register_state' = [register_state EXCEPT ![key] = END]
            /\ reply' = Reply(key, "Registered")
    /\ UNCHANGED <<tasks, reactions, matches, notifications, post_task_state, delete_state,
                   edit_state, user_data>>
    /\ UNCHANGED inflight
    /\ entered' = IF create_user_refused(users, effective_user(key))
                  THEN entered
                  ELSE [entered EXCEPT ![key] = dict_without(@, {"role", "name"})]

(***************************************************************************)
(* Post task flow                                                          *)
(***************************************************************************)
post_task_command(key) ==
    /\ post_task_state[key] = END
    /\ LET user == get_user_by_telegram_id(users, effective_user(key)) IN
       IF user = {} \/ (\E r \in user : r.role # EMPLOYER)
       THEN /\ reply' = Reply(key, "Only employers can post tasks.")
            /\ UNCHANGED post_task_state
       ELSE /\ post_task_state' = [post_task_state EXCEPT ![key] = ASK_TASK_DESC]
            /\ reply' = Reply(key, "Please provide a description of the task:")
    /\ UNCHANGED <<store, notifications, register_state, delete_state, edit_state, user_data>>
    /\ UNCHANGED inflight
    /\ entered' = IF post_task_state'[key] = ASK_TASK_DESC
                  THEN [entered EXCEPT ![key] = dict_without(@, {"task_desc", "task_timeframe"})]
                  ELSE entered

received_task_desc(key, text) ==
    /\ in_post_task_conv(key)
    /\ post_task_state[key] = ASK_TASK_DESC
    /\ user_data' = [user_data EXCEPT ![effective_user(key)] = dict_set(@, "task_desc", text)]
    /\ post_task_state' = [post_task_state EXCEPT ![key] = ASK_TASK_TIMEFRAME]
    /\ reply' = Reply(key, "Got it. What's the timeframe for this task?")
    /\ UNCHANGED <<store, notifications, register_state, delete_state, edit_state>>
    /\ UNCHANGED inflight
    /\ entered' = [entered EXCEPT ![key] = dict_set(@, "task_desc", text)]

received_task_timeframe(key, text) ==
    /\ in_post_task_conv(key)
    /\ post_task_state[key] = ASK_TASK_TIMEFRAME
    /\ user_data' = [user_data EXCEPT ![effective_user(key)] = dict_set(@, "task_timeframe", text)]
    /\ post_task_state' = [post_task_state EXCEPT ![key] = ASK_TASK_REWARD]
    /\ reply' = Reply(key, "What is the reward for completing this task?")
    /\ UNCHANGED <<store, notifications, register_state, delete_state, edit_state>>
    /\ UNCHANGED inflight
    /\ entered' = [entered EXCEPT ![key] = dict_set(@, "task_timeframe", text)]

received_task_reward(key, text) ==
    /\ in_post_task_conv(key)
    /\ post_task_state[key] = ASK_TASK_REWARD
    /\ LET employer_user == get_user_by_telegram_id(users, effective_user(key)) IN
       /\ employer_user = {} \/ Len(tasks) < MaxTasks
       /\ user_data' = [user_data EXCEPT ![effective_user(key)] = dict_set(@, "task_reward", text)]
       /\ IF employer_user = {}
          THEN \* employer_user.id raises on None
               /\ reply' = error_handler(key)
               /\ UNCHANGED <<tasks, post_task_state>>
          ELSE /\ \E r \in employer_user :
                      tasks' = create_task(tasks, r.id, user_data[effective_user(key)]["task_desc"],
                                           user_data[effective_user(key)]["task_timeframe"], text)
               /\ post_task_state' = [post_task_state EXCEPT ![key] = END]
               /\ reply' = Reply(key, "Task posted successfully")
    /\ UNCHANGED <<users, reactions, matches, notifications, register_state, delete_state,
                   edit_state>>
    /\ UNCHANGED inflight
    /\ entered' = IF get_user_by_telegram_id(users, effective_user(key)) = {}
                  THEN entered
                  ELSE [entered EXCEPT ![key] = dict_without(@, {"task_desc", "task_timeframe"})]

(***************************************************************************)
(* Profile editing                                                         *)
(***************************************************************************)
field_map(data) ==
    CASE data = "edit_name" -> "name"
      [] data = "edit_description" -> "description"
      [] data = "edit_university" -> "university"
      [] data = "edit_study_year" -> "study_year"

\* a CallbackQueryHandler of the application: the state it returns is dropped
edit_profile_callback(key, data) ==
    /\ IF data = "cancel_editing"
       THEN /\ reply' = Reply(key, "Editing canceled.")
            /\ UNCHANGED user_data
       ELSE /\ user_data' = [user_data EXCEPT ![effective_user(key)] = dict_set(@, "editing_field", field_map(data))]
            /\ reply' = Reply(key, "Enter new value for " \o field_map(data))
    /\ UNCHANGED <<store, notifications, convs>>
    /\ UNCHANGED <<inflight, entered>>

\* the only state handler of edit_profile_conv
edit_profile_value(key, text) ==
    LET new_value == strip(text)
        field == dict_get(user_data[effective_user(key)], "editing_field")
    IN  /\ IF field = Some("study_year") /\ ~is_int(new_value)
           THEN /\ reply' = Reply(key, "Study year must be a number, try again or cancel editing.")
                /\ UNCHANGED <<users, edit_state>>
           ELSE IF field = None
           THEN \* update_user(**{None: value}) raises
                /\ reply' = error_handler(key)
                /\ UNCHANGED <<users, edit_state>>
           ELSE /\ users' = update_user(users, effective_user(key), field[1],
                                        IF field[1] = "study_year" THEN int(new_value)
                                        ELSE new_value)
                /\ edit_state' = [edit_state EXCEPT ![key] = END]
                /\ reply' = IF get_user_by_telegram_id(users, effective_user(key)) # {}
                            THEN Reply(key, "updated successfully!")
                            ELSE Reply(key, "Could not update the profile. Please try again.")
        /\ UNCHANGED <<tasks, reactions, matches, notifications, register_state,
                       post_task_state, delete_state, user_data>>
        /\ UNCHANGED <<inflight, entered>>

lower_token(c) == CASE c = "Help" -> "help" [] OTHER -> c

lower(s) == [i \in DOMAIN s |-> lower_token(s[i])]

handle_menu_buttons(key, text) ==
    /\ reply' = IF lower(strip(text)) = <<"help">> THEN Reply(key, "Help Menu:")
                ELSE Reply(key, "Unrecognized option. Use the menu buttons or /help for assistance.")
    /\ UNCHANGED <<store, notifications, convs, user_data>>
    /\ UNCHANGED <<inflight, entered>>

\* a text no earlier conversation takes: edit_profile_conv, then the menu handler
text_outside_flows(key, text) ==
    /\ outside_flows(key)
    /\ IF edit_state[key] = EDIT_VALUE
       THEN edit_profile_value(key, text)
       ELSE handle_menu_buttons(key, text)

(***************************************************************************)
(* Delete profile                                                          *)
(***************************************************************************)
delete_profile_command(key) ==
    /\ delete_state[key] = END
    /\ IF get_user_by_telegram_id(users, effective_user(key)) = {}
       THEN /\ reply' = Reply(key, "You have no profile to delete.")
            /\ UNCHANGED delete_state
       ELSE /\ delete_state' = [delete_state EXCEPT ![key] = CONFIRM_DELETE]
            /\ reply' = Reply(key, "Are you sure you want to delete your profile?")
    /\ UNCHANGED <<store, notifications, register_state, post_task_state, edit_state, user_data>>
    /\ UNCHANGED <<inflight, entered>>

confirm_delete_profile(key, input) ==
    /\ in_delete_profile_conv(key)
    /\ delete_state[key] = CONFIRM_DELETE
    /\ LET text == strip(input) IN
       IF text = PHRASE
       THEN /\ users' = users \ get_user_by_telegram_id(users, effective_user(key))
            /\ reply' = Reply(key, "Your profile has been deleted.")
       ELSE /\ reply' = Reply(key, "Profile deletion canceled or phrase not matched.")
            /\ UNCHANGED users
    /\ delete_state' = [delete_state EXCEPT ![key] = END]
    /\ UNCHANGED <<tasks, reactions, matches, notifications, register_state, post_task_state,
                   edit_state, user_data>>
    /\ UNCHANGED <<inflight, entered>>

(***************************************************************************)
(* Apply to a task                                                         *)
(***************************************************************************)
notify(db_users, chat_user_id, about) ==
    { [chat_id |-> r.telegram_id, text |-> "You have a new match!", about |-> about]
      : r \in {x \in db_users : x.id = chat_user_id} }

\* the preconditions of an application (lines 407-429): a registered TALENT
\* names, by its number, a task of the tasks table
apply_preconditions(key, text) ==
    LET user == get_user_by_telegram_id(users, effective_user(key))
        parts == split(text)
    IN  /\ user # {}
        /\ \A r \in user : r.role = TALENT
        /\ Len(parts) >= 2
        /\ is_int(parts[2])
        /\ get_task_by_id(tasks, int(parts[2])) # {}

ApplyRejections ==
    {"Only talents can apply to tasks.", "Usage: /apply_task <task_id>",
     "Task ID must be a number.", "Task not found."}

\* faulty variant: the match is created without the reciprocity check
record_interest_unchecked(key, user_id, owner_id) ==
    /\ reactions' = create_reaction(reactions, user_id, owner_id, LIKE)
    /\ matches' = create_match(matches, user_id, owner_id)
    /\ notifications' = notifications (+)
           SetToBag(notify(users, owner_id, {user_id, owner_id}))
    /\ reply' = Reply(key, "Applied successfully, and it's a match!")

\* faulty variant: the reciprocity check reads the reactions as they were before the insert
record_interest_stale(key, user_id, owner_id) ==
    /\ reactions' = create_reaction(reactions, user_id, owner_id, LIKE)
    /\ IF check_mutual_like(reactions, user_id, owner_id)
       THEN /\ matches' = create_match(matches, user_id, owner_id)
            /\ notifications' = notifications (+)
                   SetToBag(notify(users, owner_id, {user_id, owner_id}))
            /\ reply' = Reply(key, "Applied successfully, and it's a match!")
       ELSE /\ reply' = Reply(key, "Applied successfully!")
            /\ UNCHANGED <<matches, notifications>>

\* lines 431-439: the reaction, the reciprocity check, the match, the notification
record_interest(key, user_id, owner_id) ==
    /\ reactions' = create_reaction(reactions, user_id, owner_id, LIKE)
    /\ IF check_mutual_like(reactions', user_id, owner_id)
       THEN /\ matches' = create_match(matches, user_id, owner_id)
            /\ notifications' = notifications (+)
                   SetToBag(notify(users, owner_id, {user_id, owner_id}))
            /\ reply' = Reply(key, "Applied successfully, and it's a match!")
       ELSE /\ reply' = Reply(key, "Applied successfully!")
            /\ UNCHANGED <<matches, notifications>>

\* faulty variant: the role of the applicant is not checked
apply_task_command_any_role(key, text) ==
    /\ BagCardinality(reactions) < MaxReactions
    /\ LET user == get_user_by_telegram_id(users, effective_user(key))
           parts == split(text)
       IN
       IF user = {}
       THEN /\ reply' = Reply(key, "Only talents can apply to tasks.")
            /\ UNCHANGED <<reactions, matches, notifications>>
       ELSE IF Len(parts) < 2
       THEN /\ reply' = Reply(key, "Usage: /apply_task <task_id>")
            /\ UNCHANGED <<reactions, matches, notifications>>
       ELSE IF ~is_int(parts[2])
       THEN /\ reply' = Reply(key, "Task ID must be a number.")
            /\ UNCHANGED <<reactions, matches, notifications>>
       ELSE IF get_task_by_id(tasks, int(parts[2])) = {}
       THEN /\ reply' = Reply(key, "Task not found.")
            /\ UNCHANGED <<reactions, matches, notifications>>
       ELSE \E r \in user : \E task \in get_task_by_id(tasks, int(parts[2])) :
                record_interest(key, r.id, task.owner_id)
    /\ UNCHANGED <<users, tasks, convs, user_data>>
    /\ UNCHANGED <<inflight, entered>>

apply_task_command(key, text) ==
    /\ BagCardinality(reactions) < MaxReactions
    /\ LET user == get_user_by_telegram_id(users, effective_user(key))
           parts == split(text)
       IN
       IF user = {} \/ (\E r \in user : r.role # TALENT)
       THEN /\ reply' = Reply(key, "Only talents can apply to tasks.")
            /\ UNCHANGED <<reactions, matches, notifications>>
       ELSE IF Len(parts) < 2
       THEN /\ reply' = Reply(key, "Usage: /apply_task <task_id>")
            /\ UNCHANGED <<reactions, matches, notifications>>
       ELSE IF ~is_int(parts[2])
       THEN /\ reply' = Reply(key, "Task ID must be a number.")
            /\ UNCHANGED <<reactions, matches, notifications>>
       ELSE IF get_task_by_id(tasks, int(parts[2])) = {}
       THEN /\ reply' = Reply(key, "Task not found.")
            /\ UNCHANGED <<reactions, matches, notifications>>
       ELSE \E r \in user : \E task \in get_task_by_id(tasks, int(parts[2])) :
                record_interest(key, r.id, task.owner_id)
    /\ UNCHANGED <<users, tasks, convs, user_data>>
    /\ UNCHANGED <<inflight, entered>>

(***************************************************************************)
(* Spec: the conversation flows of one user                                *)
(***************************************************************************)
Next ==
    \E key \in FlowKeys :
        \/ cancel(key)
        \/ register_command(key)
        \/ \E text \in RoleTexts : received_role(key, text)
        \/ \E text \in NameTexts : received_name(key, text)
        \/ \E text \in SkillTexts : received_skills(key, text)
        \/ post_task_command(key)
        \/ \E text \in TaskDescTexts : received_task_desc(key, text)
        \/ \E text \in TaskTimeframeTexts : received_task_timeframe(key, text)
        \/ \E text \in TaskRewardTexts : received_task_reward(key, text)
        \/ \E data \in EditButtons : edit_profile_callback(key, data)
        \/ \E text \in MenuTexts : text_outside_flows(key, text)
        \/ delete_profile_command(key)
        \/ \E text \in ConfirmTexts : confirm_delete_profile(key, text)

Spec == Init /\ [][Next]_vars

(***************************************************************************)
(* SpecMatch: the matching engine.  The store is one the flows leave       *)
(* behind: the users 1 and 2 each posted a task as EMPLOYER, deleted their *)
(* profile (the tasks stay) and may have registered again, under either    *)
(* role, with the surrogate id they had before.                            *)
(***************************************************************************)
MatchUser(tg, role) ==
    [id |-> tg, telegram_id |-> tg, name |-> <<"a">>, role |-> role,
     description |-> <<"a">>, university |-> None, study_year |-> None]

MatchTask(owner_id) ==
    [owner_id |-> owner_id, description |-> <<"a">>, timeframe |-> <<"w">>, reward |-> <<"r">>]

InitMatch ==
    /\ \E registered \in SUBSET TgIds : \E role \in [registered -> UserRole] :
           users = {MatchUser(tg, role[tg]) : tg \in registered}
    /\ tasks = <<MatchTask(1), MatchTask(2)>>
    /\ reactions = EmptyBag
    /\ matches = EmptyBag
    /\ notifications = EmptyBag
    /\ NoConversations

NextMatch == \E key \in PrivateKeys : \E text \in ApplyTexts : apply_task_command(key, text)

SpecMatch == InitMatch /\ [][NextMatch]_vars

(***************************************************************************)
(* SpecConc: two /apply_task handlers in flight at once.  create_reaction   *)
(* commits on its own (crud_reaction.py, line 11) and the handler holds no  *)
(* lock or transaction over lines 431-433, so the store can change between  *)
(* any two of its calls; each call is one step here.                        *)
(***************************************************************************)
\* lines 404-429: the guards; an accepted application goes on to line 431
apply_task_begin(key, text) ==
    /\ inflight[key].pc = "done"
    /\ BagCardinality(reactions)
         + Cardinality({k \in PrivateKeys : inflight[k].pc = "create_reaction"}) < MaxReactions
    /\ IF apply_preconditions(key, text)
       THEN /\ \E r \in get_user_by_telegram_id(users, effective_user(key)) :
                  \E task \in get_task_by_id(tasks, int(split(text)[2])) :
                      inflight' = [inflight EXCEPT ![key] =
                          [pc |-> "create_reaction", user_id |-> r.id, owner_id |-> task.owner_id]]
            /\ UNCHANGED <<store, notifications, convs, entered, user_data, reply>>
       ELSE apply_task_command(key, text)

\* line 431
apply_task_create_reaction(key) ==
    /\ inflight[key].pc = "create_reaction"
    /\ reactions' = create_reaction(reactions, inflight[key].user_id, inflight[key].owner_id, LIKE)
    /\ inflight' = [inflight EXCEPT ![key].pc = "check_mutual_like"]
    /\ UNCHANGED <<users, tasks, matches, notifications, convs, entered, user_data, reply>>

\* line 432, and line 441 when there is no reciprocal reaction
apply_task_check_mutual_like(key) ==
    /\ inflight[key].pc = "check_mutual_like"
    /\ IF check_mutual_like(reactions, inflight[key].user_id, inflight[key].owner_id)
       THEN /\ inflight' = [inflight EXCEPT ![key].pc = "create_match"]
            /\ UNCHANGED reply
       ELSE /\ inflight' = [inflight EXCEPT ![key] = NotRunning]
            /\ reply' = Reply(key, "Applied successfully!")
    /\ UNCHANGED <<store, notifications, convs, entered, user_data>>

\* lines 433-439
apply_task_create_match(key) ==
    /\ inflight[key].pc = "create_match"
    /\ matches' = create_match(matches, inflight[key].user_id, inflight[key].owner_id)
    /\ notifications' = notifications (+)
           SetToBag(notify(users, inflight[key].owner_id,
                           {inflight[key].user_id, inflight[key].owner_id}))
    /\ reply' = Reply(key, "Applied successfully, and it's a match!")
    /\ inflight' = [inflight EXCEPT ![key] = NotRunning]
    /\ UNCHANGED <<users, tasks, reactions, convs, entered, user_data>>

NextConc ==
    \E key \in PrivateKeys :
        \/ \E text \in ApplyTexts : apply_task_begin(key, text)
        \/ apply_task_create_reaction(key)
        \/ apply_task_check_mutual_like(key)
        \/ apply_task_create_match(key)

SpecConc == InitMatch /\ [][NextConc]_vars

(***************************************************************************)
(* SpecEdit: edit_profile_value as a function of the store, the session    *)
(* buffer and the text it is given, applied to a user as Registration      *)
(* leaves them and to the field a button selected.                         *)
(***************************************************************************)
EditTexts == MenuTexts \cup {<<"-", "1">>, <<SP, "2">>}

InitEdit ==
    /\ \E role \in UserRole :
           /\ users = {MatchUser(1, role)}
           /\ user_data = [u \in TgIds |->
                  IF u = 1 THEN dict_set(dict_set(EmptyDict, "role", role), "name", <<"a">>)
                  ELSE EmptyDict]
    /\ tasks = <<>>
    /\ reactions = EmptyBag
    /\ matches = EmptyBag
    /\ notifications = EmptyBag
    /\ register_state = [key \in ConvKeys |-> END]
    /\ post_task_state = [key \in ConvKeys |-> END]
    /\ delete_state = [key \in ConvKeys |-> END]
    /\ edit_state = [key \in ConvKeys |-> END]
    /\ reply = Reply(<<1, 1>>, "Registered")
    /\ inflight = [key \in PrivateKeys |-> NotRunning]
    /\ entered = [key \in ConvKeys |-> EmptyDict]

NextEdit ==
    \E key \in FlowKeys :
        \/ \E data \in EditButtons : edit_profile_callback(key, data)
        \/ \E text \in EditTexts : edit_profile_value(key, text)

SpecEdit == InitEdit /\ [][NextEdit]_vars

(***************************************************************************)
(* SpecChats: user 1 registers in the private chat and talks to the bot    *)
(* there and in a group chat.  Each chat has its own conversations; the    *)
(* store and context.user_data are those of the user.                      *)
(***************************************************************************)
NextChats ==
    \/ \E key \in FlowKeys :
           \/ register_command(key)
           \/ \E text \in RoleTexts : received_role(key, text)
           \/ \E text \in NameTexts : received_name(key, text)
           \/ \E text \in SkillTexts : received_skills(key, text)
    \/ \E key \in ChatKeys :
           \/ cancel(key)
           \/ post_task_command(key)
           \/ \E text \in TaskDescTexts : received_task_desc(key, text)
           \/ \E text \in TaskTimeframeTexts : received_task_timeframe(key, text)
           \/ \E text \in TaskRewardTexts : received_task_reward(key, text)
           \/ delete_profile_command(key)
           \/ \E text \in ConfirmTexts : confirm_delete_profile(key, text)

SpecChats == Init /\ [][NextChats]_vars

(***************************************************************************)
(* Properties                                                              *)
(***************************************************************************)
UserIds == 1..MaxUserId

reaction_row(a, b) == [from_user_id |-> a, to_user_id |-> b, reaction_type |-> LIKE]

\* the number of rows of the matches table for the unordered pair {a, b}
match_count(a, b) ==
    CopiesIn([user1_id |-> a, user2_id |-> b], matches)
    + (IF a = b THEN 0 ELSE CopiesIn([user1_id |-> b, user2_id |-> a], matches))

RECURSIVE sum_copies(_, _)
sum_copies(rows, bag) ==
    IF rows = {} THEN 0
    ELSE LET r == CHOOSE x \in rows : TRUE
         IN  CopiesIn(r, bag) + sum_copies(rows \ {r}, bag)

\* the number of match notifications sent for the unordered pair {a, b}
notification_count(a, b) ==
    sum_copies({n \in BagToSet(notifications) : n.about = {a, b}}, notifications)

idle(key) ==
    /\ register_state[key] = END
    /\ post_task_state[key] = END
    /\ delete_state[key] = END
    /\ edit_state[key] = END

registered(key) == get_user_by_telegram_id(users, effective_user(key)) # {}

\* C1: the store holds at most one Match for each unordered pair of users,
\* whatever applications were made, in whatever order and however often.
C1_AtMostOneMatchPerPair ==
    \A a \in UserIds : \A b \in UserIds : match_count(a, b) <= 1

\* user 1 applied twice to user 2's task, user 2 once to user 1's: one Match
C1_Witness ==
    /\ CopiesIn(reaction_row(1, 2), reactions) >= 2
    /\ CopiesIn(reaction_row(2, 1), reactions) >= 1
    /\ match_count(1, 2) = 1

\* C3: a Match for {A, B} exists only if a LIKE from A to B and a LIKE from
\* B to A are both in the store.
C3_MatchOnlyIfReciprocal ==
    \A m \in BagToSet(matches) :
        /\ reaction_exists(reactions, m.user1_id, m.user2_id)
        /\ reaction_exists(reactions, m.user2_id, m.user1_id)

\* user 1 applied to user 2's task more than once, user 2 never applied back
C3_Witness ==
    /\ CopiesIn(reaction_row(1, 2), reactions) >= 2
    /\ ~reaction_exists(reactions, 2, 1)
    /\ match_count(1, 2) = 0

\* C4: once A has applied to B and B has applied to A, a Match for {A, B}
\* is in the store.
C4_ReciprocalImpliesMatch ==
    \A a \in UserIds : \A b \in UserIds :
        (reaction_exists(reactions, a, b) /\ reaction_exists(reactions, b, a))
            => match_count(a, b) >= 1

\* both directions between users 1 and 2 were recorded, and the Match exists
C4_Witness ==
    /\ reaction_exists(reactions, 1, 2)
    /\ reaction_exists(reactions, 2, 1)
    /\ match_count(1, 2) >= 1

\* C5: at most one match notification is ever sent for an unordered pair of
\* users (a notification is sent only by the application that created the
\* Match).
C5_AtMostOneNotificationPerPair ==
    \A a \in UserIds : \A b \in UserIds \ {a} : notification_count(a, b) <= 1

\* C2: the skills step of Registration creates exactly one User carrying the
\* buffered role and name, the given description and the sender's id, ends
\* the conversation and leaves the session buffer empty.
C2_RegistrationCreatesUserAndClearsSession ==
    [][\A key \in FlowKeys : \A text \in SkillTexts :
          received_skills(key, text) =>
              /\ Cardinality(users' \ users) = 1
              /\ \A r \in users' \ users :
                     /\ r.telegram_id = effective_user(key)
                     /\ r.role = user_data[effective_user(key)]["role"]
                     /\ r.name = user_data[effective_user(key)]["name"]
                     /\ r.description = strip(text)
              /\ register_state'[key] = END
              /\ user_data'[effective_user(key)] = EmptyDict]_vars

\* C6: in the confirmation state the User is deleted only when the input is
\* exactly the phrase; any other input ends the flow with the users table
\* unchanged.
C6_DeleteOnlyOnExactPhrase ==
    [][\A key \in FlowKeys : \A text \in ConfirmTexts :
          (confirm_delete_profile(key, text) /\ text # PHRASE) =>
              (users' = users /\ delete_state'[key] = END)]_vars

\* C7: /cancel leaves users, tasks, reactions and matches as they were and
\* leaves the user with no active flow.
C7_CancelKeepsStoreAndReturnsToIdle ==
    [][\A key \in FlowKeys : cancel(key) => (store' = store /\ idle(key)')]_vars

\* the bot's last message asked this user for the new value of this field
prompted(key, field) == reply = Reply(key, "Enter new value for " \o field)

\* C8: a non-numeric text sent by a registered user who was asked for the
\* new study year leaves the stored User unchanged and the conversation in
\* EDIT_VALUE.
C8_NonNumericStudyYearStaysInEditValue ==
    [][\A key \in FlowKeys : \A text \in MenuTexts :
          (registered(key) /\ prompted(key, "study_year") /\ ~is_int(strip(text))
             /\ text_outside_flows(key, text)) =>
              (users' = users /\ edit_state'[key] = EDIT_VALUE)]_vars

\* C9: selecting a field puts a registered user in EDIT_VALUE, and the next
\* text of that user is written to that field of the stored User.
C9_SelectedFieldIsEdited ==
    [][\A key \in FlowKeys :
          /\ \A data \in EditButtons \ {"cancel_editing"} :
                 (registered(key) /\ edit_profile_callback(key, data)) =>
                     edit_state'[key] = EDIT_VALUE
          /\ \A text \in MenuTexts :
                 (registered(key) /\ prompted(key, "name") /\ text_outside_flows(key, text)) =>
                     \A r \in get_user_by_telegram_id(users', effective_user(key)) : r.name = strip(text)]_vars

\* C10: the users table holds at most one row per Telegram id.
C10_OneUserPerTelegramId ==
    \A tg \in TgIds : Cardinality(get_user_by_telegram_id(users, tg)) <= 1

\* a registered user ran Registration again up to the skills step, and the
\* store refused the second row
C10_Witness ==
    \E key \in FlowKeys :
        /\ registered(key)
        /\ register_state[key] = ASK_SKILLS
        /\ reply = error_handler(key)

\* C11: every row of the tasks table has an owner that is a row of the users
\* table with the role EMPLOYER.
C11_TaskOwnerIsExistingEmployer ==
    \A i \in DOMAIN tasks :
        \E r \in users : r.id = tasks[i].owner_id /\ r.role = EMPLOYER

\* C12: an /apply_task that fails a precondition (sender not registered, role
\* not TALENT, task id missing or not a number, task not found) is answered by
\* a rejection and leaves users, tasks, reactions, matches and the
\* notifications as they were.
C12_RejectedApplicationChangesNothing ==
    [][\A key \in PrivateKeys : \A text \in ApplyTexts :
          (apply_task_command(key, text) /\ ~apply_preconditions(key, text)) =>
              /\ store' = store
              /\ notifications' = notifications
              /\ reply'.msg \in ApplyRejections]_vars

\* a TALENT who has applied before named a task that does not exist
C12_Witness ==
    /\ reply = Reply(<<1, 1>>, "Task not found.")
    /\ \E r \in get_user_by_telegram_id(users, 1) :
           r.role = TALENT /\ reaction_exists(reactions, r.id, 2)

C14_FailedValidationChangesNothing ==
    [][\A key \in FlowKeys :
          /\ \A text \in RoleTexts :
                 (received_role(key, text) /\ upper(text) \notin {<<"TALENT">>, <<"EMPLOYER">>}) =>
                     (convs' = convs /\ user_data' = user_data /\ store' = store)
          /\ \A text \in NameTexts :
                 (received_name(key, text) /\ strip(text) = <<>>) =>
                     (convs' = convs /\ user_data' = user_data /\ store' = store)
          /\ \A text \in MenuTexts :
                 (prompted(key, "study_year") /\ ~is_int(strip(text))
                    /\ text_outside_flows(key, text)) =>
                     (convs' = convs /\ user_data' = user_data /\ store' = store)]_vars

\* a blank name was refused during a first registration: still ASK_NAME, and
\* the buffer holds the role only
C14_Witness ==
    \E key \in FlowKeys :
        /\ reply = Reply(key, "Name cannot be empty.")
        /\ register_state[key] = ASK_NAME
        /\ DOMAIN user_data[effective_user(key)] = {"role"}
        /\ users = {}

\* C15: after /cancel the user's session buffer is empty: no role, name, task
\* description, timeframe, reward or editing field is left in it.
C15_CancelEmptiesSessionBuffer ==
    [][\A key \in FlowKeys :
          cancel(key) => user_data'[effective_user(key)] = EmptyDict]_vars

\* C16: the description and timeframe steps of Task Posting write nothing to
\* the store; the reward step appends exactly one Task, owned by the posting
\* user and carrying the buffered description and timeframe and the given
\* reward, changes no other table, ends the flow and leaves the session
\* buffer empty.
C16_TaskPostingWritesOneTaskAndClearsSession ==
    [][\A key \in FlowKeys :
          /\ \A text \in TaskDescTexts : received_task_desc(key, text) => store' = store
          /\ \A text \in TaskTimeframeTexts : received_task_timeframe(key, text) => store' = store
          /\ \A text \in TaskRewardTexts :
                 (received_task_reward(key, text) /\ registered(key)) =>
                     /\ \E r \in get_user_by_telegram_id(users, effective_user(key)) :
                            tasks' = Append(tasks,
                                [owner_id |-> r.id,
                                 description |-> user_data[effective_user(key)]["task_desc"],
                                 timeframe |-> user_data[effective_user(key)]["task_timeframe"],
                                 reward |-> text])
                     /\ UNCHANGED <<users, reactions, matches>>
                     /\ post_task_state'[key] = END
                     /\ user_data'[effective_user(key)] = EmptyDict]_vars

\* C17: a field button pressed by a user who has no profile does not put the
\* conversation in EDIT_VALUE and writes nothing to the session buffer; a
\* /post_task from a user who is not a registered EMPLOYER starts no Task
\* Posting conversation and writes nothing to the session buffer.
C17_MissingPrerequisiteCreatesNoSession ==
    [][\A key \in FlowKeys :
          /\ \A data \in EditButtons \ {"cancel_editing"} :
                 (~registered(key) /\ edit_profile_callback(key, data)) =>
                     (edit_state'[key] # EDIT_VALUE /\ user_data' = user_data)
          /\ (post_task_command(key)
                /\ \A r \in get_user_by_telegram_id(users, effective_user(key)) :
                       r.role # EMPLOYER) =>
                 (post_task_state'[key] = END /\ user_data' = user_data)]_vars

\* the conversations this user has open, over all handlers and chats
active_flows(u) ==
    {<<"register_conv", key>> : key \in {k \in ConvKeys : effective_user(k) = u /\ register_state[k] # END}}
    \cup {<<"post_task_conv", key>> : key \in {k \in ConvKeys : effective_user(k) = u /\ post_task_state[k] # END}}
    \cup {<<"delete_profile_conv", key>> : key \in {k \in ConvKeys : effective_user(k) = u /\ delete_state[k] # END}}
    \cup {<<"edit_profile_conv", key>> : key \in {k \in ConvKeys : effective_user(k) = u /\ edit_state[k] # END}}

\* C18: in every reachable state each user has at most one active flow.
C18_AtMostOneActiveFlowPerUser ==
    \A u \in TgIds : Cardinality(active_flows(u)) <= 1

C20_FailedStepLeavesSessionUnchanged ==
    [][\A key \in ChatKeys :
          /\ \A text \in SkillTexts :
                 (received_skills(key, text) /\ create_user_refused(users, effective_user(key))) =>
                     (convs' = convs /\ user_data' = user_data /\ store' = store)
          /\ \A text \in TaskRewardTexts :
                 (received_task_reward(key, text) /\ ~registered(key)) =>
                     (convs' = convs /\ user_data' = user_data /\ store' = store)]_vars

\* the state that follows a state in its ConversationHandler (lines 167-175, 226-234)
next_state(state) ==
    CASE state = ASK_ROLE -> ASK_NAME
      [] state = ASK_NAME -> ASK_SKILLS
      [] state = ASK_SKILLS -> END
      [] state = ASK_TASK_DESC -> ASK_TASK_TIMEFRAME
      [] state = ASK_TASK_TIMEFRAME -> ASK_TASK_REWARD
      [] state = ASK_TASK_REWARD -> END
      [] OTHER -> END

\* C21: a text given to Registration or Task Posting keeps the state or moves
\* it to the next state of the chain; the state of a flow changes in no other
\* way than entry (END to the first state), one step forward, or /cancel; and
\* a User is created only by a step taken in ASK_SKILLS, a Task only by a
\* step taken in ASK_TASK_REWARD.
C21_FlowsAreStrictLinearChains ==
    [][\A key \in FlowKeys :
          /\ (\/ \E text \in RoleTexts : received_role(key, text)
              \/ \E text \in NameTexts : received_name(key, text)
              \/ \E text \in SkillTexts : received_skills(key, text)) =>
                 register_state'[key] \in {register_state[key], next_state(register_state[key])}
          /\ (\/ \E text \in TaskDescTexts : received_task_desc(key, text)
              \/ \E text \in TaskTimeframeTexts : received_task_timeframe(key, text)
              \/ \E text \in TaskRewardTexts : received_task_reward(key, text)) =>
                 post_task_state'[key] \in {post_task_state[key], next_state(post_task_state[key])}
          /\ register_state'[key] # register_state[key] =>
                 \/ register_state[key] = END /\ register_state'[key] = ASK_ROLE
                 \/ register_state[key] # END /\ register_state'[key] = next_state(register_state[key])
                 \/ cancel(key)
          /\ post_task_state'[key] # post_task_state[key] =>
                 \/ post_task_state[key] = END /\ post_task_state'[key] = ASK_TASK_DESC
                 \/ post_task_state[key] # END
                      /\ post_task_state'[key] = next_state(post_task_state[key])
                 \/ cancel(key)
          /\ (users' \ users # {}) =>
                 (register_state[key] = ASK_SKILLS /\ register_state'[key] = END)
          /\ Len(tasks') > Len(tasks) =>
                 (post_task_state[key] = ASK_TASK_REWARD /\ post_task_state'[key] = END)]_vars

\* a registered EMPLOYER has just posted a Task: both chains were walked
C21_Witness ==
    \E key \in FlowKeys :
        /\ reply = Reply(key, "Task posted successfully")
        /\ tasks # <<>>
        /\ \E r \in get_user_by_telegram_id(users, effective_user(key)) :
               r.id = tasks[Len(tasks)].owner_id /\ r.role = EMPLOYER

\* C22: the User that the skills step creates carries the role and the name
\* accepted in the Registration run that the step completes, and the Task
\* that the reward step creates carries the description and the timeframe
\* accepted in the Task Posting run that the step completes.
C22_CompletionWritesValuesOfCurrentRun ==
    [][\A key \in ChatKeys :
          /\ \A text \in SkillTexts :
                 received_skills(key, text) =>
                     \A r \in users' \ users :
                         /\ dict_get(entered[key], "role") = Some(r.role)
                         /\ dict_get(entered[key], "name") = Some(r.name)
          /\ \A text \in TaskRewardTexts :
                 (received_task_reward(key, text) /\ Len(tasks') > Len(tasks)) =>
                     /\ dict_get(entered[key], "task_desc") = Some(tasks'[Len(tasks')].description)
                     /\ dict_get(entered[key], "task_timeframe")
                            = Some(tasks'[Len(tasks')].timeframe)]_vars

====
